---- MODULE Spec2Model ----
(***************************************************************************)
(* Netflow analysis service: the v5 record decoder (NetflowParser), the    *)
(* main process (module loading, socket setup, receive loop, shutdown) and *)
(* the analysis module processes (SimpleDDoSDetector, ExampleAnalysis-     *)
(* Module) that read decoded packets from their queues.                    *)
(***************************************************************************)
EXTENDS Integers, Sequences, FiniteSets, TLC

\* ------------------------------------------------------------------ bounds
\* largest flow count a generated datagram declares
MaxFlows == 2
\* number of filler patterns used to generate datagram contents
MaxSeed == 1
\* datagrams the receive loop takes in before the model stops feeding it
MaxPackets == 2
\* enabled module descriptors found at startup
MaxModules == 2
\* packets waiting on the queue of a module process that is run on its own
MaxQueue == 3

\* ------------------------------------------------------- struct (python)
\* sizes of the struct format characters H, L, B in network byte order
SizeH == 2
SizeL == 4
SizeB == 1

\* '!HHLLLLL'
header_fmt == <<SizeH, SizeH, SizeL, SizeL, SizeL, SizeL, SizeL>>

\* '!LLLHHLLLLHHBBBBHHBBH'
flow_fmt == <<SizeL, SizeL, SizeL, SizeH, SizeH, SizeL, SizeL, SizeL, SizeL, SizeH,
              SizeH, SizeB, SizeB, SizeB, SizeB, SizeH, SizeH, SizeB, SizeB, SizeH>>

RECURSIVE SumTo(_, _)
SumTo(fmt, j) == IF j = 0 THEN 0 ELSE fmt[j] + SumTo(fmt, j - 1)

\* struct.calcsize(fmt)
calcsize(fmt) == SumTo(fmt, Len(fmt))

header_len == calcsize(header_fmt)
flow_len == calcsize(flow_fmt)

RECURSIVE BigEndian(_, _, _)
\* the unsigned integer held by the size bytes of buf that follow offset off
BigEndian(buf, off, size) ==
    IF size = 0 THEN 0
    ELSE BigEndian(buf, off, size - 1) * 256 + buf[off + size]

StructError == "struct.error"

\* struct.unpack(fmt, buf) raises struct.error unless the buffer is exactly
\* calcsize(fmt) bytes long
unpack_raises(fmt, buf) == Len(buf) # calcsize(fmt)

\* struct.unpack(fmt, buf): the tuple of the fields
unpack(fmt, buf) == [j \in 1..Len(fmt) |-> BigEndian(buf, SumTo(fmt, j - 1), fmt[j])]

Min(a, b) == IF a < b THEN a ELSE b

\* the python slice buf[lo:hi] of a bytes object (0-based, clamped)
Slice(buf, lo, hi) == SubSeq(buf, lo + 1, Min(hi, Len(buf)))

\* ------------------------------------------------------------ the decoder
LogWrongVersion == "Wrong netflow packet version"
LogMalformed == "Malformed packet received"

\* outcomes of a call: a returned value (None or a packet) or a raised exception
ReturnNone(lg) == [kind |-> "None", log |-> lg]
ReturnPacket(h, fl, lg) == [kind |-> "packet", header |-> h, flows |-> fl, log |-> lg]
Raise(exc, lg) == [kind |-> "raise", exc |-> exc, log |-> lg]

\* the flow dictionary with src_port and dst_port taken from each other's field
flow_dict_swapped(flow_unpacked) ==
    [src_addr |-> flow_unpacked[1],
     dst_addr |-> flow_unpacked[2],
     src_port |-> flow_unpacked[11],
     dst_port |-> flow_unpacked[10],
     npackets |-> flow_unpacked[6],
     nbytes   |-> flow_unpacked[7],
     tcpflags |-> flow_unpacked[13],
     proto    |-> flow_unpacked[14]]

\* the flow dictionary built from an unpacked record (tuple indexes are 1-based here)
flow_dict(flow_unpacked) ==
    [src_addr |-> flow_unpacked[1],
     dst_addr |-> flow_unpacked[2],
     src_port |-> flow_unpacked[10],
     dst_port |-> flow_unpacked[11],
     npackets |-> flow_unpacked[6],
     nbytes   |-> flow_unpacked[7],
     tcpflags |-> flow_unpacked[13],
     proto    |-> flow_unpacked[14]]

RECURSIVE parse_flows(_, _, _, _, _)
\* for i in range(header['nflows']): unpack the i-th record and append it
parse_flows(recv_data, header, i, flows, lg) ==
    IF i >= header.nflows THEN ReturnPacket(header, flows, lg)
    ELSE LET flow_offset == header_len + i * flow_len
             block == Slice(recv_data, flow_offset, flow_offset + flow_len)
             flow_unpacked == unpack(flow_fmt, block)
         IN  IF unpack_raises(flow_fmt, block) THEN Raise(StructError, lg)
             ELSE parse_flows(recv_data, header, i + 1, Append(flows, flow_dict(flow_unpacked)), lg)

\* the version test that accepts every version
version_rejected_never(header) == FALSE

\* if header['version'] != 5
version_rejected(header) == header.version # 5

\* NetflowParser.parse_netflow_packet(recv_data)
parse_netflow_packet(recv_data) ==
    IF recv_data = <<>> THEN ReturnNone(<<>>)
    ELSE LET header_unpacked == unpack(header_fmt, Slice(recv_data, 0, header_len))
         IN  IF unpack_raises(header_fmt, Slice(recv_data, 0, header_len))
             THEN Raise(StructError, <<>>)
             ELSE LET header == [version |-> header_unpacked[1], nflows |-> header_unpacked[2]]
                  IN  IF version_rejected(header) THEN ReturnNone(<<LogWrongVersion>>)
                      ELSE LET lg == IF Len(recv_data) # header_len + header.nflows * flow_len
                                     THEN <<LogMalformed>> ELSE <<>>
                           IN  parse_flows(recv_data, header, 0, <<>>, lg)

\* --------------------------------------------------------------- datagrams
\* content byte k (1-based) of filler pattern s; kept small so that every
\* 32-bit field, and a sum of a few of them, stays inside the integers TLC
\* computes with; the period 13 makes neighbouring fields and records differ
Filler(k, s) == (k * 7 + s * 5 + 3) % 13

\* a datagram of L bytes whose header declares version v and n flows
MkDatagram(v, n, L, s) ==
    [k \in 1..L |-> CASE k = 1 -> v \div 256
                      [] k = 2 -> v % 256
                      [] k = 3 -> n \div 256
                      [] k = 4 -> n % 256
                      [] OTHER -> Filler(k, s)]

Versions == {5, 9}

\* lengths below the header, and around every whole number of records
Lengths == {0, 1, 10, 23} \cup
           {24 + 48 * k + e : k \in 0..(MaxFlows + 1), e \in {0, 7}}

Datagrams == {MkDatagram(v, n, L, s) : v \in Versions, n \in 0..MaxFlows,
                                      L \in Lengths, s \in 0..MaxSeed}

\* the datagrams fed to the receive loop: shorter than a header, a wrong
\* version (of a fitting and of an odd length), well formed with one flow,
\* longer and shorter than declared
LoopDatagrams == {MkDatagram(5, 1, 10, 0),
                  MkDatagram(9, 1, 72, 0), MkDatagram(9, 1, 31, 0),
                  MkDatagram(5, 1, 72, 0),
                  MkDatagram(5, 1, 120, 0), MkDatagram(5, 1, 31, 0)}

\* ------------------------------------------------------- analysis modules
\* descr['options'] of the detector
ips_threshold == 1
min_packets_per_source == 2
max_avg_packet_size == 100

Kinds == {"SimpleDDoSDetector", "ExampleAnalysisModule"}

\* os.path.basename(d) of the module directories, in os.listdir order
DirNames == <<"simple_ddos_detector", "example_analysis_module", "module_c", "module_d">>

Absent == "<absent>"

\* an enabled module.descr: the module_name key may be missing
Descriptors == [module_name : {Absent, "detector"}, kind : Kinds]

\* one slot for every descriptor a modules directory of the model can hold: the
\* loading loop alone is also run over one descriptor more than the whole program
Procs == 1..(MaxModules + 1)

RECURSIVE SeqsUpTo(_, _)
SeqsUpTo(S, n) ==
    IF n = 0 THEN {<<>>}
    ELSE LET shorter == SeqsUpTo(S, n - 1)
         IN  shorter \cup {Append(q, x) : q \in {r \in shorter : Len(r) = n - 1}, x \in S}

\* the keys of the accumulator: (dst_addr, src_addr) pairs that accrued packets
EmptyState == <<>>

Accrue(ips, dst, src, n) ==
    IF <<dst, src>> \in DOMAIN ips
    THEN [ips EXCEPT ![<<dst, src>>] = @ + n]
    ELSE [k \in DOMAIN ips \cup {<<dst, src>>} |-> IF k = <<dst, src>> THEN n ELSE ips[k]]

RECURSIVE update_state_from(_, _, _)
\* SimpleDDoSDetector.update_state: the flows from position i on; nbytes/npackets
\* raises ZeroDivisionError when npackets is 0
update_state_from(ips, flows, i) ==
    IF i > Len(flows) THEN [ips_state |-> ips, raised |-> "none"]
    ELSE LET f == flows[i]
         IN  IF f.npackets = 0 THEN [ips_state |-> ips, raised |-> "ZeroDivisionError"]
             ELSE IF f.nbytes < max_avg_packet_size * f.npackets
                  THEN update_state_from(Accrue(ips, f.dst_addr, f.src_addr, f.npackets), flows, i + 1)
                  ELSE update_state_from(ips, flows, i + 1)

update_state(ips, pack) == update_state_from(ips, pack.flows, 1)

SourcesOf(ips, dst) == {k[2] : k \in {kk \in DOMAIN ips : kk[1] = dst}}

RECURSIVE KeysInOrder(_)
\* for dst_addr in self.ips_state.keys(): every key once (taken in ascending
\* order here; python takes them in insertion order)
KeysInOrder(S) ==
    IF S = {} THEN <<>>
    ELSE LET least == CHOOSE x \in S : \A y \in S : x <= y
         IN  <<least>> \o KeysInOrder(S \ {least})

RECURSIVE targets_from(_, _, _)
\* the body of the loop over the keys: targets.append(dst_addr) when the key
\* has more than ips_threshold sources and none below min_packets_per_source
targets_from(ips, keys, targets) ==
    IF keys = <<>> THEN targets
    ELSE LET dst_addr == Head(keys)
             this_is_it == \A src \in SourcesOf(ips, dst_addr) :
                              ~(ips[<<dst_addr, src>>] < min_packets_per_source)
         IN  IF Cardinality(SourcesOf(ips, dst_addr)) > ips_threshold /\ this_is_it
             THEN targets_from(ips, Tail(keys), Append(targets, dst_addr))
             ELSE targets_from(ips, Tail(keys), targets)

\* the detection with the source count compared by >= in place of >
detect_ddos_targets_ge(ips) ==
    LET keys == KeysInOrder({k[1] : k \in DOMAIN ips})
        Hit(dst) == /\ Cardinality(SourcesOf(ips, dst)) >= ips_threshold
                    /\ \A src \in SourcesOf(ips, dst) :
                          ~(ips[<<dst, src>>] < min_packets_per_source)
    IN  SelectSeq(keys, Hit)

\* SimpleDDoSDetector.detect_ddos_targets
detect_ddos_targets(ips) == targets_from(ips, KeysInOrder({k[1] : k \in DOMAIN ips}), <<>>)

RECURSIVE count_ports(_, _, _)
\* ExampleAnalysisModule.run: the frequency map after the flows from position i on
count_ports(freq, flows, i) ==
    IF i > Len(flows) THEN freq
    ELSE LET f == flows[i]
             Bump(m, port) == IF port \in DOMAIN m THEN [m EXCEPT ![port] = @ + 1]
                              ELSE [k \in DOMAIN m \cup {port} |-> IF k = port THEN 1 ELSE m[k]]
         IN  IF f.proto \in {6, 17}
             THEN count_ports(Bump(Bump(freq, f.src_port), f.dst_port), flows, i + 1)
             ELSE count_ports(freq, flows, i + 1)

\* ------------------------------------------------------------------ state
VARIABLES
    pc,                  \* position of the main process
    gcfg,                \* GlobalConfig: stop_event, packets_processed, packets_total
    modules_to_load,     \* the enabled descriptors found in the modules directory
    load_i,              \* position of the loading loop in modules_to_load
    module_objects,      \* the dict of launched modules, in insertion order
    sock,                \* the listening socket: "none", "open", "closed"
    recv_data,           \* the datagram recvfrom returned last
    last_exc,            \* the exception the receive loop logged last
    join_i,              \* position of the shutdown loop in module_objects
    summary,             \* the counts of the final log line
    cpc,                 \* position of each module process
    module_output_queue, \* the queue created for each descriptor
    module_stop_event,   \* the event created for each descriptor
    ips_state,           \* the accumulator of each detector process
    port_freq_map,       \* the frequency map of each example module process
    reported,            \* the target sets each detector process has logged
    cexc,                \* the exception each module process exited with
    arg,                 \* the datagram a direct caller hands to the decoder
    ret,                 \* what that call returned or raised
    put_failed,          \* the modules whose put was logged as failed for the last packet
    obs                  \* history: what an observed module process did in its turns

vars == <<pc, gcfg, modules_to_load, load_i, module_objects, sock, recv_data, last_exc,
          join_i, summary, cpc, module_output_queue, module_stop_event, ips_state,
          port_freq_map, reported, cexc, arg, ret, put_failed, obs>>

main_vars == <<pc, gcfg, load_i, module_objects, sock, recv_data, last_exc, join_i, summary>>
module_vars == <<cpc, module_output_queue, module_stop_event, ips_state, port_freq_map,
                 reported, cexc>>
decoder_vars == <<arg, ret>>
history_vars == <<put_failed, obs>>

\* nothing observed yet: the flows handed to update_state in the current window,
\* the flows the last evaluation was made on, what the last turn did, and the
\* packets taken after the stop event was set
NoObs == [window |-> <<>>, evaluated_on |-> <<>>, last |-> "none", after_stop |-> 0]

\* no datagram yet (no datagram holds a negative byte)
NoData == <<-1>>
\* the decoder has not been called
NotCalled == [kind |-> "not called"]

\* the state after the imports: gcfg as GlobalConfig declares it, nothing loaded
InitProgram ==
    /\ pc = "load"
    /\ gcfg = [stop_event |-> FALSE, packets_processed |-> 0, packets_total |-> 0]
    /\ load_i = 1
    /\ module_objects = <<>>
    /\ sock = "none"
    /\ recv_data = NoData
    /\ last_exc = "none"
    /\ join_i = 1
    /\ summary = <<>>
    /\ cpc = [p \in Procs |-> "none"]
    /\ module_output_queue = [p \in Procs |-> <<>>]
    /\ module_stop_event = [p \in Procs |-> FALSE]
    /\ ips_state = [p \in Procs |-> EmptyState]
    /\ port_freq_map = [p \in Procs |-> <<>>]
    /\ reported = [p \in Procs |-> <<>>]
    /\ cexc = [p \in Procs |-> "none"]
    /\ put_failed = {}
    /\ obs = [p \in Procs |-> NoObs]

Init ==
    /\ InitProgram
    /\ modules_to_load \in SeqsUpTo(Descriptors, MaxModules)
    /\ arg = NoData
    /\ ret = NotCalled

\* ------------------------------------------------------------ main process
\* quit_signal_handler, installed for QUIT, TERM and INT
quit_signal_handler ==
    /\ pc \notin {"done", "exit1"}
    /\ gcfg' = [gcfg EXCEPT !.stop_event = TRUE]
    /\ UNCHANGED <<pc, modules_to_load, load_i, module_objects, sock, recv_data, last_exc,
                   join_i, summary>>
    /\ UNCHANGED module_vars
    /\ UNCHANGED decoder_vars
    /\ UNCHANGED history_vars

\* mod_name = descr['module_name'] if 'module_name' in descr else os.path.basename(d)
mod_name_of(i) ==
    IF modules_to_load[i].module_name # Absent THEN modules_to_load[i].module_name
    ELSE DirNames[i]

HasKey(d, k) == \E j \in 1..Len(d) : d[j].name = k

\* module_objects[mod_name] = {...}: a new key goes last, an existing key keeps
\* its place and takes the new value
DictSet(d, k, v) ==
    IF HasKey(d, k) THEN [j \in 1..Len(d) |-> IF d[j].name = k THEN v ELSE d[j]]
    ELSE Append(d, v)

\* one turn of the loop over modules_to_load: import the module, build its
\* object and start its process; either try block may fail
LoadModule ==
    /\ pc = "load"
    /\ load_i <= Len(modules_to_load)
    /\ \E fault \in {"none", "import", "launch"} :
          IF fault = "none"
          THEN /\ cpc' = [cpc EXCEPT ![load_i] = "check"]
               /\ module_objects' = DictSet(module_objects, mod_name_of(load_i),
                                            [name |-> mod_name_of(load_i), proc |-> load_i])
          ELSE UNCHANGED <<cpc, module_objects>>
    /\ load_i' = load_i + 1
    /\ UNCHANGED <<pc, gcfg, modules_to_load, sock, recv_data, last_exc, join_i, summary>>
    /\ UNCHANGED <<module_output_queue, module_stop_event, ips_state, port_freq_map,
                   reported, cexc>>
    /\ UNCHANGED decoder_vars
    /\ UNCHANGED history_vars

\* gcfg.module_objects = module_objects, then the socket is created, bound and
\* registered; a failure ends the process with sys.exit(1)
SocketSetup ==
    /\ pc = "load"
    /\ load_i > Len(modules_to_load)
    /\ \E ok \in BOOLEAN :
          IF ok THEN sock' = "open" /\ pc' = "loop"
          ELSE sock' = "none" /\ pc' = "exiting"
    /\ UNCHANGED <<gcfg, modules_to_load, load_i, module_objects, recv_data, last_exc,
                   join_i, summary>>
    /\ UNCHANGED module_vars
    /\ UNCHANGED decoder_vars
    /\ UNCHANGED history_vars

\* the process leaves at once, whatever module processes are still running
ExitJoin_abandons ==
    /\ pc = "exiting"
    /\ pc' = "exit1"
    /\ UNCHANGED <<gcfg, modules_to_load, load_i, module_objects, sock, recv_data, last_exc,
                   join_i, summary>>
    /\ UNCHANGED module_vars
    /\ UNCHANGED decoder_vars
    /\ UNCHANGED history_vars

\* sys.exit(1): the interpreter runs its exit handlers before it leaves with
\* status 1, and the one multiprocessing installs joins every child that is
\* not a daemon; p = mp.Process(target=mo.run) is not one
ExitJoin ==
    /\ pc = "exiting"
    /\ \A p \in Procs : cpc[p] \in {"none", "exited"}
    /\ pc' = "exit1"
    /\ UNCHANGED <<gcfg, modules_to_load, load_i, module_objects, sock, recv_data, last_exc,
                   join_i, summary>>
    /\ UNCHANGED module_vars
    /\ UNCHANGED decoder_vars
    /\ UNCHANGED history_vars

\* while not gcfg.stop_event.is_set()
LoopCheck ==
    /\ pc = "loop"
    /\ pc' = IF gcfg.stop_event THEN "close" ELSE "select"
    /\ UNCHANGED <<gcfg, modules_to_load, load_i, module_objects, sock, recv_data, last_exc,
                   join_i, summary>>
    /\ UNCHANGED module_vars
    /\ UNCHANGED decoder_vars
    /\ UNCHANGED history_vars

\* the handler of the outer try: the exception is swallowed where it should go on
OuterExcept_propagates(e) == [pc |-> "crashed", last_exc |-> e]

\* except Exception as e: log.error(...), and the while loop goes on
OuterExcept(e) == [pc |-> "loop", last_exc |-> e]

\* sel.select returns no event within the timeout, or raises
SelectIdle ==
    /\ pc = "select"
    /\ \E raised \in {"none", "OSError"} :
          IF raised = "none" THEN pc' = "loop" /\ UNCHANGED last_exc
          ELSE /\ pc' = OuterExcept(raised).pc
               /\ last_exc' = OuterExcept(raised).last_exc
    /\ UNCHANGED <<gcfg, modules_to_load, load_i, module_objects, sock, recv_data,
                   join_i, summary>>
    /\ UNCHANGED module_vars
    /\ UNCHANGED decoder_vars
    /\ UNCHANGED history_vars

\* the attributes of a NetflowParser object
NetflowParserAttrs == {"header_fmt", "header_len", "flow_fmt", "flow_len", "parse_netflow_packet"}

\* nfp.<name>(recv_data): looking the attribute up raises when there is none
nfp_call(name, data) ==
    IF name \notin NetflowParserAttrs THEN Raise("AttributeError", <<>>)
    ELSE parse_netflow_packet(data)

\* pack = nfp.parse_packet(recv_data)
parse_call(data) == nfp_call("parse_packet", data)

\* the wrong counter bumped when a datagram is received
count_received_wrong(g) == [g EXCEPT !.packets_processed = @ + 1]

\* gcfg.packets_total += 1
count_received(g) == [g EXCEPT !.packets_total = @ + 1]

\* gcfg.packets_processed += 1
count_processed(g) == [g EXCEPT !.packets_processed = @ + 1]

LiveProcs == {module_objects[j].proc : j \in 1..Len(module_objects)}

\* sel.select returns the socket's event and it is serviced: recvfrom, the
\* counters, the decoder call, and the put on the queue of every module
ServiceEvent ==
    /\ pc = "select"
    /\ \E outcome \in {"BlockingIOError", "OSError", "data"}, got \in LoopDatagrams :
          CASE outcome = "BlockingIOError" ->
                  /\ pc' = "loop"
                  /\ UNCHANGED <<gcfg, recv_data, last_exc, module_output_queue, put_failed>>
            [] outcome = "OSError" ->
                  /\ pc' = OuterExcept(outcome).pc
                  /\ last_exc' = OuterExcept(outcome).last_exc
                  /\ UNCHANGED <<gcfg, recv_data, module_output_queue, put_failed>>
            [] OTHER ->
                  /\ gcfg.packets_total < MaxPackets
                  /\ recv_data' = got
                  /\ LET pack == parse_call(got)
                     IN  CASE pack.kind = "raise" ->
                                 /\ gcfg' = count_received(gcfg)
                                 /\ pc' = OuterExcept(pack.exc).pc
                                 /\ last_exc' = OuterExcept(pack.exc).last_exc
                                 /\ UNCHANGED <<module_output_queue, put_failed>>
                           [] pack.kind = "None" ->
                                 /\ gcfg' = count_received(gcfg)
                                 /\ pc' = "loop"
                                 /\ UNCHANGED <<last_exc, module_output_queue, put_failed>>
                           [] pack.kind = "packet" ->
                                 /\ gcfg' = count_processed(count_received(gcfg))
                                 /\ \E failed \in SUBSET LiveProcs :
                                       /\ module_output_queue' =
                                             [p \in Procs |->
                                                IF p \in LiveProcs \ failed
                                                THEN Append(module_output_queue[p],
                                                            [header |-> pack.header, flows |-> pack.flows])
                                                ELSE module_output_queue[p]]
                                       /\ put_failed' = failed
                                 /\ pc' = "loop"
                                 /\ UNCHANGED last_exc
    /\ UNCHANGED <<modules_to_load, load_i, module_objects, sock, join_i, summary>>
    /\ UNCHANGED <<cpc, module_stop_event, ips_state, port_freq_map, reported, cexc>>
    /\ UNCHANGED decoder_vars
    /\ UNCHANGED obs

\* the receive loop is left with the socket still registered and open
CloseSocket_skipped ==
    /\ pc = "close"
    /\ join_i' = 1
    /\ pc' = "stop"
    /\ UNCHANGED <<gcfg, modules_to_load, load_i, module_objects, sock, recv_data, last_exc,
                   summary>>
    /\ UNCHANGED module_vars
    /\ UNCHANGED decoder_vars
    /\ UNCHANGED history_vars

\* sel.unregister(sock); sock.close()
CloseSocket ==
    /\ pc = "close"
    /\ sock' = "closed"
    /\ join_i' = 1
    /\ pc' = "stop"
    /\ UNCHANGED <<gcfg, modules_to_load, load_i, module_objects, recv_data, last_exc, summary>>
    /\ UNCHANGED module_vars
    /\ UNCHANGED decoder_vars
    /\ UNCHANGED history_vars

\* the shutdown loop reaches the next key: module_stop_event.set(); when the
\* keys are used up the loop is left
ShutdownSet ==
    /\ pc = "stop"
    /\ IF join_i <= Len(module_objects)
       THEN /\ module_stop_event' = [module_stop_event EXCEPT ![module_objects[join_i].proc] = TRUE]
            /\ pc' = "join"
       ELSE /\ pc' = "summary"
            /\ UNCHANGED module_stop_event
    /\ UNCHANGED <<gcfg, modules_to_load, load_i, module_objects, sock, recv_data, last_exc,
                   join_i, summary>>
    /\ UNCHANGED <<cpc, module_output_queue, ips_state, port_freq_map, reported, cexc>>
    /\ UNCHANGED decoder_vars
    /\ UNCHANGED history_vars

\* module_process.join() returns once that process has terminated
ShutdownJoin ==
    /\ pc = "join"
    /\ cpc[module_objects[join_i].proc] = "exited"
    /\ join_i' = join_i + 1
    /\ pc' = "stop"
    /\ UNCHANGED <<gcfg, modules_to_load, load_i, module_objects, sock, recv_data, last_exc,
                   summary>>
    /\ UNCHANGED module_vars
    /\ UNCHANGED decoder_vars
    /\ UNCHANGED history_vars

\* log.info('Exiting application... (handled ... out of ... packets ...)')
Summary ==
    /\ pc = "summary"
    /\ summary' = <<[packets_processed |-> gcfg.packets_processed,
                    packets_total |-> gcfg.packets_total]>>
    /\ pc' = "done"
    /\ UNCHANGED <<gcfg, modules_to_load, load_i, module_objects, sock, recv_data, last_exc,
                   join_i>>
    /\ UNCHANGED module_vars
    /\ UNCHANGED decoder_vars
    /\ UNCHANGED history_vars

\* ---------------------------------------------------------- module processes
kind_of(p) == modules_to_load[p].kind

\* the loop is left only when the stop event is set and the queue is drained
ConsumerCheck_drains(p) ==
    /\ cpc[p] = "check"
    /\ cpc' = [cpc EXCEPT ![p] = IF module_stop_event[p] /\ module_output_queue[p] = <<>>
                                  THEN "exited" ELSE "get"]
    /\ UNCHANGED <<module_output_queue, module_stop_event, ips_state, port_freq_map,
                   reported, cexc>>
    /\ UNCHANGED main_vars
    /\ UNCHANGED modules_to_load
    /\ UNCHANGED decoder_vars
    /\ UNCHANGED history_vars

\* while not self.stop_event.is_set(); the process ends when the loop is left
ConsumerCheck(p) ==
    /\ cpc[p] = "check"
    /\ cpc' = [cpc EXCEPT ![p] = IF module_stop_event[p] THEN "exited" ELSE "get"]
    /\ UNCHANGED <<module_output_queue, module_stop_event, ips_state, port_freq_map,
                   reported, cexc>>
    /\ UNCHANGED main_vars
    /\ UNCHANGED modules_to_load
    /\ UNCHANGED decoder_vars
    /\ UNCHANGED history_vars

\* the turn of the detector with the accumulator kept over an evaluation
DetectorTurn_keeps(p, got, elapsed) ==
    LET upd == IF got THEN update_state(ips_state[p], Head(module_output_queue[p]))
               ELSE [ips_state |-> ips_state[p], raised |-> "none"]
        ddos_targets == detect_ddos_targets(upd.ips_state)
    IN  /\ module_output_queue' = [module_output_queue EXCEPT ![p] = IF got THEN Tail(@) ELSE @]
        /\ IF upd.raised # "none"
           THEN /\ cpc' = [cpc EXCEPT ![p] = "exited"]
                /\ cexc' = [cexc EXCEPT ![p] = upd.raised]
                /\ ips_state' = [ips_state EXCEPT ![p] = upd.ips_state]
                /\ UNCHANGED reported
           ELSE /\ cpc' = [cpc EXCEPT ![p] = "check"]
                /\ IF elapsed
                   THEN /\ reported' = [reported EXCEPT ![p] =
                                           IF Len(ddos_targets) > 0 THEN Append(@, ddos_targets) ELSE @]
                        /\ ips_state' = [ips_state EXCEPT ![p] = upd.ips_state]
                   ELSE /\ ips_state' = [ips_state EXCEPT ![p] = upd.ips_state]
                        /\ UNCHANGED reported
                /\ UNCHANGED cexc
        /\ UNCHANGED port_freq_map

\* SimpleDDoSDetector.run, one turn of the loop after the test: q.get returns a
\* packet (got) or times out, update_state, and the window evaluation when
\* analysis_interval has run out (elapsed)
DetectorTurn(p, got, elapsed) ==
    LET upd == IF got THEN update_state(ips_state[p], Head(module_output_queue[p]))
               ELSE [ips_state |-> ips_state[p], raised |-> "none"]
        ddos_targets == detect_ddos_targets(upd.ips_state)
    IN  /\ module_output_queue' = [module_output_queue EXCEPT ![p] = IF got THEN Tail(@) ELSE @]
        /\ IF upd.raised # "none"
           THEN /\ cpc' = [cpc EXCEPT ![p] = "exited"]
                /\ cexc' = [cexc EXCEPT ![p] = upd.raised]
                /\ ips_state' = [ips_state EXCEPT ![p] = upd.ips_state]
                /\ UNCHANGED reported
           ELSE /\ cpc' = [cpc EXCEPT ![p] = "check"]
                /\ IF elapsed
                   THEN /\ reported' = [reported EXCEPT ![p] =
                                           IF Len(ddos_targets) > 0 THEN Append(@, ddos_targets) ELSE @]
                        /\ ips_state' = [ips_state EXCEPT ![p] = EmptyState]
                   ELSE /\ ips_state' = [ips_state EXCEPT ![p] = upd.ips_state]
                        /\ UNCHANGED reported
                /\ UNCHANGED cexc
        /\ UNCHANGED port_freq_map

\* ExampleAnalysisModule.run, one turn of the loop after the test
ExampleTurn(p, got) ==
    /\ module_output_queue' = [module_output_queue EXCEPT ![p] = IF got THEN Tail(@) ELSE @]
    /\ port_freq_map' = [port_freq_map EXCEPT ![p] =
                            IF got THEN count_ports(@, Head(module_output_queue[p]).flows, 1) ELSE @]
    /\ cpc' = [cpc EXCEPT ![p] = "check"]
    /\ UNCHANGED <<ips_state, reported, cexc>>

\* q.get(timeout=1.0) returns a packet (TRUE) or raises queue.Empty (FALSE)
GetResults(p) == IF module_output_queue[p] = <<>> THEN {FALSE} ELSE {TRUE, FALSE}

\* the body of the loop of the class the module process runs
ConsumerTurn(p, got, elapsed) ==
    IF kind_of(p) = "SimpleDDoSDetector" THEN DetectorTurn(p, got, elapsed)
    ELSE ExampleTurn(p, got)

\* q.get(timeout=1.0) and what the module does with its result; the get may
\* time out although a packet has been put, when the packet is still in transit
ConsumerGet(p) ==
    /\ cpc[p] = "get"
    /\ \E got \in GetResults(p), elapsed \in BOOLEAN : ConsumerTurn(p, got, elapsed)
    /\ UNCHANGED module_stop_event
    /\ UNCHANGED main_vars
    /\ UNCHANGED modules_to_load
    /\ UNCHANGED decoder_vars
    /\ UNCHANGED history_vars

\* what a turn adds to the history of module process p: the flows handed to
\* update_state since the last evaluation, the flows an evaluation was made on,
\* and the packets taken with the stop event already set
Observe(p, got, elapsed) ==
    LET o == obs[p]
        taken == IF got THEN o.window \o Head(module_output_queue[p]).flows ELSE o.window
        raised == cexc'[p] # cexc[p]
        evaluated == kind_of(p) = "SimpleDDoSDetector" /\ elapsed /\ ~raised
    IN  [window       |-> IF evaluated THEN <<>> ELSE taken,
         evaluated_on |-> IF evaluated THEN taken ELSE o.evaluated_on,
         last         |-> IF raised THEN "raised"
                          ELSE IF evaluated THEN "evaluated"
                          ELSE IF got THEN "packet" ELSE "timeout",
         after_stop   |-> o.after_stop + (IF got /\ module_stop_event[p] THEN 1 ELSE 0)]

\* the same turn of a module process, with what it did written to the history
ObservedGet(p) ==
    /\ cpc[p] = "get"
    /\ \E got \in GetResults(p), elapsed \in BOOLEAN :
          /\ ConsumerTurn(p, got, elapsed)
          /\ obs' = [obs EXCEPT ![p] = Observe(p, got, elapsed)]
    /\ UNCHANGED <<module_stop_event, put_failed>>
    /\ UNCHANGED main_vars
    /\ UNCHANGED modules_to_load
    /\ UNCHANGED decoder_vars

\* mo['module_stop_event'].set(), as the module process sees it: at any moment
SetStop(p) ==
    /\ cpc[p] # "none"
    /\ ~module_stop_event[p]
    /\ module_stop_event' = [module_stop_event EXCEPT ![p] = TRUE]
    /\ UNCHANGED <<cpc, module_output_queue, ips_state, port_freq_map, reported, cexc>>
    /\ UNCHANGED main_vars
    /\ UNCHANGED modules_to_load
    /\ UNCHANGED decoder_vars
    /\ UNCHANGED history_vars

\* ------------------------------------------------------------ specifications
Next ==
    \/ quit_signal_handler
    \/ LoadModule
    \/ SocketSetup
    \/ ExitJoin
    \/ LoopCheck
    \/ SelectIdle
    \/ ServiceEvent
    \/ CloseSocket
    \/ ShutdownSet
    \/ ShutdownJoin
    \/ Summary
    \/ \E p \in Procs : ConsumerCheck(p)
    \/ \E p \in Procs : ConsumerGet(p)

Spec == Init /\ [][Next]_vars

\* the main process and every module process keep running while they can
Fairness ==
    /\ WF_vars(LoadModule \/ SocketSetup \/ ExitJoin \/ LoopCheck \/ SelectIdle \/ ServiceEvent
               \/ CloseSocket \/ ShutdownSet \/ ShutdownJoin \/ Summary)
    /\ \A p \in Procs : WF_vars(ConsumerCheck(p) \/ ConsumerGet(p))

FairSpec == Spec /\ Fairness

\* the module loading on its own, over directories of up to MaxModules + 1
\* enabled descriptors, up to the socket setup
InitLoad ==
    /\ InitProgram
    /\ modules_to_load \in SeqsUpTo(Descriptors, MaxModules + 1)
    /\ arg = NoData
    /\ ret = NotCalled

NextLoad ==
    \/ LoadModule
    \/ SocketSetup

SpecLoad == InitLoad /\ [][NextLoad]_vars

\* a decoded flow record with the given addresses and counters (TCP, 1024 -> 80)
MkFlow(src, dst, npackets, nbytes) ==
    flow_dict(<<src, dst, 0, 0, 0, npackets, nbytes, 0, 0, 1024, 80, 0, 0, 6, 0, 0, 0, 0, 0, 0>>)

\* a packet as parse_netflow_packet returns it
MkPacket(flows) == [header |-> [version |-> 5, nflows |-> Len(flows)], flows |-> flows]

\* the packets a module process is fed: two sources that reach the minimum, one
\* source alone, a source below the minimum, a record of large packets, a second
\* destination, and records with npackets = 0 after and before a regular one
PacketSet ==
    {MkPacket(<<MkFlow(1, 8, 2, 100), MkFlow(2, 8, 2, 100)>>),
     MkPacket(<<MkFlow(1, 8, 2, 100)>>),
     MkPacket(<<MkFlow(2, 8, 1, 50)>>),
     MkPacket(<<MkFlow(2, 8, 2, 500)>>),
     MkPacket(<<MkFlow(1, 9, 2, 100), MkFlow(2, 9, 2, 100)>>),
     MkPacket(<<MkFlow(1, 8, 2, 100), MkFlow(1, 8, 0, 0)>>),
     MkPacket(<<MkFlow(2, 8, 0, 0), MkFlow(2, 8, 2, 100)>>)}

\* one module process of either class, run on its own: mo.run() with any
\* packets up to MaxQueue on its queue; its stop event may be set at any moment
InitModules ==
    /\ pc = "loop"
    /\ gcfg = [stop_event |-> FALSE, packets_processed |-> 0, packets_total |-> 0]
    /\ modules_to_load \in {<<d>> : d \in Descriptors}
    /\ load_i = 2
    /\ module_objects = <<[name |-> mod_name_of(1), proc |-> 1]>>
    /\ sock = "open"
    /\ recv_data = NoData
    /\ last_exc = "none"
    /\ join_i = 1
    /\ summary = <<>>
    /\ cpc = [p \in Procs |-> IF p = 1 THEN "check" ELSE "none"]
    /\ \E q \in SeqsUpTo(PacketSet, MaxQueue) :
          module_output_queue = [p \in Procs |-> IF p = 1 THEN q ELSE <<>>]
    /\ module_stop_event = [p \in Procs |-> FALSE]
    /\ ips_state = [p \in Procs |-> EmptyState]
    /\ port_freq_map = [p \in Procs |-> <<>>]
    /\ reported = [p \in Procs |-> <<>>]
    /\ cexc = [p \in Procs |-> "none"]
    /\ put_failed = {}
    /\ obs = [p \in Procs |-> NoObs]
    /\ arg = NoData
    /\ ret = NotCalled

NextModules ==
    \/ \E p \in Procs : ConsumerCheck(p)
    \/ \E p \in Procs : ObservedGet(p)
    \/ \E p \in Procs : SetStop(p)

SpecModules == InitModules /\ [][NextModules]_vars

\* a caller of the decoder: the argument is any datagram
InitDecode ==
    /\ InitProgram
    /\ modules_to_load = <<>>
    /\ arg \in Datagrams
    /\ ret = NotCalled

\* ret = nfp.parse_netflow_packet(arg)
DecodeCall ==
    /\ ret = NotCalled
    /\ ret' = parse_netflow_packet(arg)
    /\ UNCHANGED arg
    /\ UNCHANGED main_vars
    /\ UNCHANGED modules_to_load
    /\ UNCHANGED module_vars
    /\ UNCHANGED history_vars

\* the caller takes the next datagram
DecodeNext ==
    /\ ret # NotCalled
    /\ arg' \in Datagrams
    /\ ret' = NotCalled
    /\ UNCHANGED main_vars
    /\ UNCHANGED modules_to_load
    /\ UNCHANGED module_vars
    /\ UNCHANGED history_vars

NextDecode == DecodeCall \/ DecodeNext

SpecDecode == InitDecode /\ [][NextDecode]_vars

\* ------------------------------------------------------------------ claims
\* what the wire format says about a datagram, read off its bytes
U8(d, o) == d[o + 1]
U16(d, o) == d[o + 1] * 256 + d[o + 2]
U32(d, o) == ((d[o + 1] * 256 + d[o + 2]) * 256 + d[o + 3]) * 256 + d[o + 4]

HasHeader(d) == d # NoData /\ Len(d) >= 24
WireVersion(d) == U16(d, 0)
WireCount(d) == U16(d, 2)
WellFormed(d) == HasHeader(d) /\ WireVersion(d) = 5 /\ Len(d) = 24 + 48 * WireCount(d)
Mismatched(d) == HasHeader(d) /\ WireVersion(d) = 5 /\ Len(d) # 24 + 48 * WireCount(d)

ReceivePhase == {"loop", "select"}

\* a step of the receive loop in which recvfrom hands over a datagram
Received == pc = "select" /\ pc' # pc /\ (recv_data' # recv_data \/ gcfg' # gcfg)

Decoded(d) == [header |-> parse_netflow_packet(d).header, flows |-> parse_netflow_packet(d).flows]

\* C1: servicing a well-formed version-5 datagram adds one to packets_processed
\* and appends the decoded packet, once, to the queue of every live module
C1_FanOut ==
    [][(Received /\ WellFormed(recv_data')) =>
          /\ gcfg'.packets_processed = gcfg.packets_processed + 1
          /\ \A p \in LiveProcs :
                module_output_queue'[p] = Append(module_output_queue[p], Decoded(recv_data'))]_vars

\* C2: packets_processed never exceeds packets_total
C2_ProcessedLeTotal == gcfg.packets_processed <= gcfg.packets_total

C2_Witness ==
    /\ gcfg.packets_total >= 2
    /\ last_exc = "AttributeError"
    /\ pc \in ReceivePhase

\* C3: a version-5 datagram whose length differs from 24 + 48 * count yields no
\* packet from the decoder, reaches no queue and leaves packets_processed alone
C3_MismatchRejected ==
    [][(Received /\ Mismatched(recv_data')) =>
          /\ parse_netflow_packet(recv_data').kind # "packet"
          /\ gcfg'.packets_processed = gcfg.packets_processed
          /\ module_output_queue' = module_output_queue]_vars

\* C4: a datagram whose header carries a version other than 5 is answered with
\* None by the decoder before any record is read, is counted in packets_total
\* and not in packets_processed, and reaches no queue
C4_WrongVersion ==
    [][(Received /\ HasHeader(recv_data') /\ WireVersion(recv_data') # 5) =>
          /\ parse_netflow_packet(recv_data') = ReturnNone(<<LogWrongVersion>>)
          /\ gcfg'.packets_total = gcfg.packets_total + 1
          /\ gcfg'.packets_processed = gcfg.packets_processed
          /\ module_output_queue' = module_output_queue]_vars

C4_Witness ==
    /\ HasHeader(recv_data)
    /\ WireVersion(recv_data) = 9
    /\ gcfg.packets_total >= 1
    /\ Len(module_objects) >= 1

\* C5: the decoder returns None or a packet for every datagram and never raises
C5_NeverRaises == ret.kind # "raise"

\* C6: for a well-formed version-5 datagram declaring N flows the decoder returns
\* N records, the i-th read from the i-th 48 byte block: addresses at bytes 0
\* and 4, packets at 16, bytes at 20, ports at 32 and 34, flags at 37, protocol at 38
C6_DecodeFields ==
    (ret # NotCalled /\ WellFormed(arg)) =>
        /\ ret.kind = "packet"
        /\ ret.header = [version |-> 5, nflows |-> WireCount(arg)]
        /\ Len(ret.flows) = WireCount(arg)
        /\ \A i \in 1..WireCount(arg) :
              LET b == 24 + 48 * (i - 1)
              IN  ret.flows[i] = [src_addr |-> U32(arg, b),
                                  dst_addr |-> U32(arg, b + 4),
                                  npackets |-> U32(arg, b + 16),
                                  nbytes   |-> U32(arg, b + 20),
                                  src_port |-> U16(arg, b + 32),
                                  dst_port |-> U16(arg, b + 34),
                                  tcpflags |-> U8(arg, b + 37),
                                  proto    |-> U8(arg, b + 38)]

C6_Witness ==
    /\ WellFormed(arg)
    /\ WireCount(arg) = 2
    /\ ret.kind = "packet"
    /\ Len(ret.flows) = 2
    /\ ret.flows[1] # ret.flows[2]

\* C7: while the main process waits in join for one module, no other module of
\* the live set that is still running has its stop event unset
C7_SetAllBeforeJoin ==
    pc = "join" =>
        \A j \in 1..Len(module_objects) :
            cpc[module_objects[j].proc] # "exited" => module_stop_event[module_objects[j].proc]

C9_ShutdownCompletes ==
    (gcfg.stop_event /\ pc \in ReceivePhase) ~>
        (pc = "done" /\ summary # <<>> /\ \A p \in Procs : cpc[p] \in {"none", "exited"})

\* C10: the receive phase is left only with the stop event set, whatever was
\* raised while an event was serviced, and a datagram that arrives after a
\* failed event is still counted in packets_total
C10_LoopSurvives ==
    [][/\ (pc \in ReceivePhase /\ pc' \notin ReceivePhase) => gcfg.stop_event
       /\ (last_exc # "none" /\ Received) => gcfg'.packets_total = gcfg.packets_total + 1]_vars

C10_Witness ==
    /\ last_exc # "none"
    /\ gcfg.packets_total >= 2
    /\ ~gcfg.stop_event
    /\ pc = "select"

\* the descriptors the loading loop has dealt with
Dealt == 1..(load_i - 1)

\* a step that enqueues, or should have enqueued, a decoded packet
Dispatching == Received /\ WellFormed(recv_data')

C12_QueueOrder ==
    [][\A p \in LiveProcs :
          /\ \/ module_output_queue'[p] = module_output_queue[p]
             \/ module_output_queue[p] # <<>> /\ module_output_queue'[p] = Tail(module_output_queue[p])
             \/ Dispatching /\ module_output_queue'[p] =
                                  Append(module_output_queue[p], Decoded(recv_data'))
          /\ (Dispatching /\ p \notin put_failed') =>
                Len(module_output_queue'[p]) = Len(module_output_queue[p]) + 1]_vars

\* C13: a descriptor whose loading, construction or launch raised is not in
\* the live set, every other descriptor dealt with that was launched is in it,
\* and the loading loop goes on to the socket setup
C13_LoadFailureIsolated ==
    /\ pc = "load" => load_i <= Len(modules_to_load) + 1
    /\ \A i \in Dealt :
          cpc[i] = "none" =>
             /\ i \notin LiveProcs
             /\ \A j \in Dealt \ {i} : cpc[j] # "none" => j \in LiveProcs

\* C14: when the socket setup fails the process terminates with status 1,
\* whatever module processes were launched before
C14_SocketFailureExits == (pc = "exiting") ~> (pc = "exit1")

C19_StartedAreLive == \A p \in Procs : cpc[p] # "none" => p \in LiveProcs

\* a turn of the loop of module process p
Turn(p) == cpc[p] = "get" /\ cpc'[p] # "get"

\* a turn in which the detector p evaluated its window
Evaluation(p) == Turn(p) /\ kind_of(p) = "SimpleDDoSDetector" /\ obs'[p].last = "evaluated"

\* the flows of a window whose bytes/packets is below max_avg_packet_size
Small(w) == {i \in 1..Len(w) : w[i].npackets > 0 /\ w[i].nbytes < max_avg_packet_size * w[i].npackets}

\* the sources that accrued packets to destination D in the window
SourcesTo(w, D) == {w[i].src_addr : i \in {j \in Small(w) : w[j].dst_addr = D}}

RECURSIVE PacketsOver(_, _, _, _)
\* the packets source S accrued to destination D over the flows in the set I
PacketsOver(w, D, S, I) ==
    IF I = {} THEN 0
    ELSE LET i == CHOOSE j \in I : TRUE
         IN  (IF w[i].dst_addr = D /\ w[i].src_addr = S THEN w[i].npackets ELSE 0)
             + PacketsOver(w, D, S, I \ {i})

PacketsTo(w, D, S) == PacketsOver(w, D, S, Small(w))

\* the destination D is to be reported for the window
ShouldReport(w, D) ==
    /\ Cardinality(SourcesTo(w, D)) > ips_threshold
    /\ \A S \in SourcesTo(w, D) : PacketsTo(w, D, S) >= min_packets_per_source

DestinationsOf(w) == {w[i].dst_addr : i \in 1..Len(w)}

Occurrences(entry, D) == Cardinality({i \in 1..Len(entry) : entry[i] = D})

\* the flows of a packet whose npackets is not 0
NonZero(pack) == [pack EXCEPT !.flows = SelectSeq(@, LAMBDA f : f.npackets # 0)]

HasZero(pack) == \E i \in 1..Len(pack.flows) : pack.flows[i].npackets = 0

\* C16: a detector that takes a packet holding a record with npackets = 0
\* stays in its loop without an exception, and when the turn makes no
\* evaluation its accumulator is what the other records of the packet give
C16_ZeroPacketsSkipped ==
    [][\A p \in Procs :
          (/\ Turn(p)
           /\ kind_of(p) = "SimpleDDoSDetector"
           /\ Len(module_output_queue'[p]) < Len(module_output_queue[p])
           /\ HasZero(Head(module_output_queue[p])))
          => /\ cpc'[p] = "check"
             /\ cexc'[p] = "none"
             /\ obs'[p].last = "packet" =>
                   ips_state'[p] =
                      update_state(ips_state[p], NonZero(Head(module_output_queue[p]))).ips_state]_vars

\* C17: at an evaluation the detector appends one report that holds, once
\* each, exactly the destinations with more than ips_threshold sources in the
\* window, every one of them with at least min_packets_per_source packets
\* from flows below max_avg_packet_size; with no such destination it reports
\* nothing
C17_ReportedIff ==
    [][\A p \in Procs :
          Evaluation(p) =>
             LET w == obs'[p].evaluated_on
                 expected == {D \in DestinationsOf(w) : ShouldReport(w, D)}
             IN  IF expected = {} THEN reported'[p] = reported[p]
                 ELSE /\ Len(reported'[p]) = Len(reported[p]) + 1
                      /\ SubSeq(reported'[p], 1, Len(reported[p])) = reported[p]
                      /\ LET entry == reported'[p][Len(reported'[p])]
                         IN  /\ \A i \in 1..Len(entry) : entry[i] \in expected
                             /\ \A D \in expected : Occurrences(entry, D) = 1]_vars

C17_Witness ==
    /\ obs[1].last = "evaluated"
    /\ reported[1] = << <<8>> >>
    /\ ShouldReport(obs[1].evaluated_on, 8)
    /\ \E i \in 1..Len(obs[1].evaluated_on) : obs[1].evaluated_on[i].nbytes = 500

\* C18: an evaluation leaves the accumulator and the window empty, reported
\* or not, and after every turn that did not raise the accumulator holds what
\* the flows taken since the last evaluation give, and nothing else
C18_NoCarryover ==
    [][\A p \in Procs :
          (Turn(p) /\ kind_of(p) = "SimpleDDoSDetector" /\ obs'[p].last # "raised") =>
             LET w == obs'[p].window
             IN  /\ Evaluation(p) => (ips_state'[p] = EmptyState /\ w = <<>>)
                 /\ \A k \in DOMAIN ips_state'[p] : k[2] \in SourcesTo(w, k[1])
                 /\ \A D \in DestinationsOf(w) : \A S \in SourcesTo(w, D) :
                       /\ <<D, S>> \in DOMAIN ips_state'[p]
                       /\ ips_state'[p][<<D, S>>] = PacketsTo(w, D, S)]_vars

C18_Witness ==
    /\ obs[1].last = "evaluated"
    /\ reported[1] = << <<8>> >>
    /\ obs[1].evaluated_on = <<MkFlow(1, 8, 2, 100)>>
    /\ ips_state[1] = EmptyState

\* C20: a module process takes at most one packet with its stop event set,
\* leaves its loop at the next test, and takes nothing once it has left
C20_AtMostOneAfterStop ==
    [][\A p \in Procs :
          /\ obs'[p].after_stop <= 1
          /\ (cpc[p] = "check" /\ module_stop_event[p] /\ cpc'[p] # "check") => cpc'[p] = "exited"
          /\ cpc[p] = "exited" =>
                (cpc'[p] = "exited" /\ module_output_queue'[p] = module_output_queue[p])]_vars

C20_Witness ==
    /\ cpc[1] = "exited"
    /\ cexc[1] = "none"
    /\ module_stop_event[1]
    /\ obs[1].after_stop = 1
    /\ Len(module_output_queue[1]) = MaxQueue - 1
====
